---- MODULE Spec2Model ----
(***************************************************************************)
(* Covert channels lab: the storage channel (a message carried in the      *)
(* 16-bit IP_ID field) and the timing channel (a message carried in the    *)
(* spacing of UDP datagrams).  Characters are their code points, a string  *)
(* is a sequence of code points, time.time() is an integer number of       *)
(* ticks, and Python's None is the value None below.                       *)
(***************************************************************************)
EXTENDS Integers, Sequences, FiniteSets, TLC

VARIABLES
    rcv,        \* the StorageChannelReceiver object (self.*)
    srun,       \* StorageChannelReceiver.run: its position and what it printed
    observed,   \* history: the packets sniff handed to packet_callback
    clock,      \* time.time()
    ssend,      \* send_storage_channel: its locals
    trc,        \* receive_timing_channel: its locals and position
    tsend,      \* send_timing_channel: its locals and position
    wire,       \* datagrams or packets sent and not yet received, in order
    arg         \* the input of the pure-function specifications

vars == <<rcv, srun, observed, clock, ssend, trc, tsend, wire, arg>>

---------------------------------------------------------------------------
(* Bounds of the model *)

MaxObs == 4         \* packets handed to packet_callback in one run
MaxLen == 4         \* characters of a message given to the storage sender
MaxPackets == 6     \* datagrams the timing receiver is handed in one run
MaxBits == 17       \* bits handed to the byte assembly
MaxChars == 2       \* characters of a message given to the timing sender
MaxLost == 2        \* datagrams the transport may lose in one run

(* Program constants *)

None == -1                  \* Python's None (times and words are >= 0)
eof_threshold == 65535      \* 0xFFFF
bytes_per_packet == 2
DefaultTtl == 42

(* Inputs the transport can deliver *)

Words == {16706, 17220, 16640, eof_threshold}   \* 0x4142 0x4344 0x4100 0xFFFF
Ttls == {DefaultTtl, 64}
Ticks == {0, 1}             \* advance of the clock between two events

\* characters of the messages given to the storage sender:
\* NUL, ' ', 'A', 'B', '~', DEL, 0xFF
StorageChars == {0, 32, 65, 66, 126, 127, 255}

SeqsUpTo(S, n) == UNION { [1..k -> S] : k \in 0..n }

---------------------------------------------------------------------------
(* Values of the processes that a specification does not run *)

Idle == [pc |-> "idle"]

---------------------------------------------------------------------------
(* Storage receiver *)

\* for i in range(bytes_per_packet - 1, -1, -1): the scan of one word from
\* byte i downwards; the result is byte_list
RECURSIVE ScanBytes(_, _)
ScanBytes(encoded_value, i) ==
    IF i < 0 THEN <<>>
    ELSE LET byte_val == (encoded_value \div (2 ^ (i * 8))) % 256 IN
         IF byte_val = 0 THEN <<>>
         ELSE IF 32 <= byte_val /\ byte_val <= 126
              THEN <<byte_val>> \o ScanBytes(encoded_value, i - 1)
              ELSE ScanBytes(encoded_value, i - 1)

\* the scan with the order of the bytes reversed (low byte first)
RECURSIVE ScanBytesLowFirst(_, _)
ScanBytesLowFirst(encoded_value, i) ==
    IF i > bytes_per_packet - 1 THEN <<>>
    ELSE LET byte_val == (encoded_value \div (2 ^ (i * 8))) % 256 IN
         IF byte_val = 0 THEN <<>>
         ELSE IF 32 <= byte_val /\ byte_val <= 126
              THEN <<byte_val>> \o ScanBytesLowFirst(encoded_value, i + 1)
              ELSE ScanBytesLowFirst(encoded_value, i + 1)

DecodeWordLowFirst(encoded_value) == ScanBytesLowFirst(encoded_value, 0)

\* the scan with a zero byte skipped instead of ending the scan
RECURSIVE ScanBytesNoBreak(_, _)
ScanBytesNoBreak(encoded_value, i) ==
    IF i < 0 THEN <<>>
    ELSE LET byte_val == (encoded_value \div (2 ^ (i * 8))) % 256 IN
         IF 32 <= byte_val /\ byte_val <= 126
         THEN <<byte_val>> \o ScanBytesNoBreak(encoded_value, i - 1)
         ELSE ScanBytesNoBreak(encoded_value, i - 1)

DecodeWordNoBreak(encoded_value) ==
    ScanBytesNoBreak(encoded_value, bytes_per_packet - 1)

\* the scan with every non-zero byte appended, printable or not
RECURSIVE ScanBytesUnfiltered(_, _)
ScanBytesUnfiltered(encoded_value, i) ==
    IF i < 0 THEN <<>>
    ELSE LET byte_val == (encoded_value \div (2 ^ (i * 8))) % 256 IN
         IF byte_val = 0 THEN <<>>
         ELSE <<byte_val>> \o ScanBytesUnfiltered(encoded_value, i - 1)

DecodeWordUnfiltered(encoded_value) ==
    ScanBytesUnfiltered(encoded_value, bytes_per_packet - 1)

\* the decode loop of packet_callback: byte_list for one word
DecodeWord(encoded_value) == ScanBytes(encoded_value, bytes_per_packet - 1)

\* StorageChannelReceiver.__init__
ReceiverInit(ttl) ==
    [ expected_ttl            |-> ttl,
      decoded_bytes           |-> <<>>,
      start_time              |-> None,
      packet_count            |-> 0,
      last_packet_id          |-> None,
      system_packets_filtered |-> 0 ]

TtlFilteredNever(self, ttl) == FALSE

\* the TTL filter of packet_callback
TtlFiltered(self, ttl) == ttl # self.expected_ttl

IsDuplicateNever(self, encoded_value) == FALSE

\* the duplicate check of packet_callback
IsDuplicate(self, encoded_value) == encoded_value = self.last_packet_id

\* the EOF check of packet_callback
IsEof(encoded_value) == encoded_value = eof_threshold

\* packet_callback with the timer started at every accepted packet
PacketCallbackRestartsTimer(self, encoded_value, ttl, now) ==
    IF TtlFiltered(self, ttl)
    THEN [self EXCEPT !.system_packets_filtered = @ + 1]
    ELSE IF IsDuplicate(self, encoded_value)
    THEN self
    ELSE LET s2 == [self EXCEPT !.last_packet_id = encoded_value,
                                !.start_time = now]
         IN  IF IsEof(encoded_value)
             THEN s2
             ELSE [s2 EXCEPT !.decoded_bytes = @ \o DecodeWord(encoded_value),
                             !.packet_count = @ + 1]

\* packet_callback(pkt) on the object self at time now: the object afterwards.
\* sniff's filter "ip src ... and ip dst ..." passes IP packets only, so the
\* return on IP not in pkt is never taken.
PacketCallback(self, encoded_value, ttl, now) ==
    IF TtlFiltered(self, ttl)
    THEN [self EXCEPT !.system_packets_filtered = @ + 1]
    ELSE IF IsDuplicate(self, encoded_value)
    THEN self
    ELSE LET s1 == [self EXCEPT !.last_packet_id = encoded_value]
             s2 == IF s1.start_time = None
                   THEN [s1 EXCEPT !.start_time = now]
                   ELSE s1
         IN  IF IsEof(encoded_value)
             THEN s2
             ELSE [s2 EXCEPT !.decoded_bytes = @ \o DecodeWord(encoded_value),
                             !.packet_count = @ + 1]

\* print_results with the bits counted per accepted word
PrintResultsPerWord(self, now) ==
    IF self.start_time = None
    THEN [ kind |-> "No packets received" ]
    ELSE LET elapsed == now - self.start_time
             bits_decoded == self.packet_count * 16
         IN  [ kind     |-> "Results",
               message  |-> self.decoded_bytes,
               length   |-> Len(self.decoded_bytes),
               packets  |-> self.packet_count,
               filtered |-> self.system_packets_filtered,
               elapsed  |-> elapsed,
               bits_decoded |-> bits_decoded,
               bps      |-> IF elapsed > 0 THEN <<bits_decoded, elapsed>>
                                           ELSE <<0, 1>> ]

\* print_results: what it prints
PrintResults(self, now) ==
    IF self.start_time = None
    THEN [ kind |-> "No packets received" ]
    ELSE LET elapsed == now - self.start_time
             bits_decoded == Len(self.decoded_bytes) * 8
         IN  [ kind     |-> "Results",
               message  |-> self.decoded_bytes,
               length   |-> Len(self.decoded_bytes),
               packets  |-> self.packet_count,
               filtered |-> self.system_packets_filtered,
               elapsed  |-> elapsed,
               bits_decoded |-> bits_decoded,
               \* bps, a ratio <<numerator, denominator>>
               bps      |-> IF elapsed > 0 THEN <<bits_decoded, elapsed>>
                                           ELSE <<0, 1>> ]

Exceptions == {"KeyboardInterrupt", "PermissionError", "Exception"}

RunHandlerSilent(exc, self, now) ==
    IF exc = "Exception" THEN <<>> ELSE <<PrintResults(self, now)>>

\* the handler run() has for an exception leaving sniff: the reports printed
RunHandler(exc, self, now) ==
    CASE exc = "KeyboardInterrupt" -> <<PrintResults(self, now)>>
      [] exc = "PermissionError"   -> <<PrintResults(self, now)>>
      [] OTHER                     -> <<PrintResults(self, now)>>

StorageIdle ==
    /\ ssend = Idle /\ trc = Idle /\ tsend = Idle /\ wire = <<>> /\ arg = <<>>

StorageInit ==
    /\ rcv = ReceiverInit(DefaultTtl)
    /\ srun = [pc |-> "sniff", raised |-> "", reports |-> <<>>]
    /\ observed = <<>>
    /\ clock = 0
    /\ StorageIdle

\* sniff hands one packet to packet_callback
Sniff ==
    /\ srun.pc = "sniff"
    /\ Len(observed) < MaxObs
    /\ \E encoded_value \in Words, ttl \in Ttls, dt \in Ticks :
         /\ clock' = clock + dt
         /\ rcv' = PacketCallback(rcv, encoded_value, ttl, clock + dt)
         /\ observed' = Append(observed, [word |-> encoded_value, ttl |-> ttl])
    /\ UNCHANGED <<srun, ssend, trc, tsend, wire, arg>>

\* sniff raises: run's except clause prints and run returns
SniffRaises ==
    /\ srun.pc = "sniff"
    /\ \E exc \in Exceptions, dt \in Ticks :
         /\ clock' = clock + dt
         /\ srun' = [pc |-> "returned", raised |-> exc,
                     reports |-> srun.reports \o RunHandler(exc, rcv, clock + dt)]
    /\ UNCHANGED <<rcv, observed, ssend, trc, tsend, wire, arg>>

Next == Sniff \/ SniffRaises

Spec == StorageInit /\ [][Next]_vars

---------------------------------------------------------------------------
(* Storage sender *)

\* Python's a | b on non-negative integers
RECURSIVE BitOr(_, _)
BitOr(a, b) ==
    IF a = 0 THEN b
    ELSE IF b = 0 THEN a
    ELSE (IF a % 2 = 1 \/ b % 2 = 1 THEN 1 ELSE 0)
         + 2 * BitOr(a \div 2, b \div 2)

\* chunk.ljust(bytes_per_packet, '\x00')
Ljust(chunk) ==
    chunk \o [k \in 1..(bytes_per_packet - Len(chunk)) |-> 0]

\* message[i:i+bytes_per_packet], i counted from 0
Chunk(message, i) ==
    SubSeq(message, i + 1,
           IF i + bytes_per_packet < Len(message)
           THEN i + bytes_per_packet ELSE Len(message))

\* for char in chunk: encoded_value = (encoded_value << 8) | ord(char)
RECURSIVE PackChunk(_, _)
PackChunk(encoded_value, chunk) ==
    IF chunk = <<>> THEN encoded_value
    ELSE PackChunk(BitOr(encoded_value * 256, Head(chunk)), Tail(chunk))

EncodeChunk(message, i) == PackChunk(0, Ljust(Chunk(message, i)))

\* time.sleep(0.05) between two packets, in ticks of 50 ms
PacingSleep == 1

SenderInit(message, ttl, now) ==
    [ pc |-> "encode", message |-> message, ttl |-> ttl, start_time |-> now,
      i |-> 0, packets_sent |-> 0, eofs |-> 0 ]

\* one iteration of the encoding loop: a packet is built and sent, then the
\* sender sleeps
SendChunk ==
    /\ ssend.pc = "encode"
    /\ ssend.i < Len(ssend.message)
    /\ wire' = Append(wire, [id  |-> EncodeChunk(ssend.message, ssend.i),
                             ttl |-> ssend.ttl])
    /\ ssend' = [ssend EXCEPT !.i = @ + bytes_per_packet,
                              !.packets_sent = @ + 1]
    /\ clock' = clock + PacingSleep
    /\ UNCHANGED <<rcv, srun, observed, trc, tsend, arg>>

\* send() raises in the encoding loop: the error is printed and the sender
\* returns, no EOF marker is sent
SendFails ==
    /\ ssend.pc = "encode"
    /\ ssend.i < Len(ssend.message)
    /\ ssend' = [ssend EXCEPT !.pc = "failed"]
    /\ UNCHANGED <<rcv, srun, observed, clock, trc, tsend, wire, arg>>

\* the encoding loop is over: on to the EOF markers
EncodeDone ==
    /\ ssend.pc = "encode"
    /\ ssend.i >= Len(ssend.message)
    /\ ssend' = [ssend EXCEPT !.pc = "eof"]
    /\ UNCHANGED <<rcv, srun, observed, clock, trc, tsend, wire, arg>>

EofMarkers == 3

\* for _ in range(3): one EOF marker is sent, then the sender sleeps
SendEofMarker ==
    /\ ssend.pc = "eof"
    /\ ssend.eofs < EofMarkers
    /\ wire' = Append(wire, [id |-> eof_threshold, ttl |-> ssend.ttl])
    /\ ssend' = [ssend EXCEPT !.eofs = @ + 1,
                              !.pc = IF ssend.eofs + 1 = EofMarkers
                                     THEN "done" ELSE "eof"]
    /\ clock' = clock + PacingSleep
    /\ UNCHANGED <<rcv, srun, observed, trc, tsend, arg>>

---------------------------------------------------------------------------
(* The storage codec alone: the sender's words, each decoded by the        *)
(* receiver's decode loop in the order sent                                *)

CodecInit ==
    /\ \E message \in SeqsUpTo(StorageChars, MaxLen) :
         ssend = SenderInit(message, DefaultTtl, 0)
    /\ wire = <<>>
    /\ arg = [words |-> <<>>, decoded |-> <<>>]
    /\ rcv = Idle /\ srun = Idle /\ trc = Idle /\ tsend = Idle
    /\ observed = <<>> /\ clock = 0

\* the decode loop applied to the next word sent
DecodeNextWord ==
    /\ wire # <<>>
    /\ arg' = [words   |-> Append(arg.words, Head(wire).id),
               decoded |-> arg.decoded \o DecodeWord(Head(wire).id)]
    /\ wire' = Tail(wire)
    /\ UNCHANGED <<rcv, srun, observed, clock, ssend, trc, tsend>>

CodecNext ==
    SendChunk \/ SendFails \/ EncodeDone \/ SendEofMarker \/ DecodeNextWord

SpecCodec == CodecInit /\ [][CodecNext]_vars

Printable(c) == 32 <= c /\ c <= 126

\* every word the sender built has been sent and decoded
CodecFinished == ssend.pc = "done" /\ wire = <<>>

\* C2: for a message of even length, all of whose characters are printable
\* ASCII, the decode loop applied in order to the words of the encoding loop
\* gives back the message.
C2_RoundTrip ==
    ( /\ CodecFinished
      /\ Len(ssend.message) % 2 = 0
      /\ \A k \in DOMAIN ssend.message : Printable(ssend.message[k]) )
    => arg.decoded = ssend.message

C2_Witness ==
    /\ CodecFinished
    /\ ssend.message = <<65, 66, 32, 126>>
    /\ arg.words = <<16706, 8318, 65535, 65535, 65535>>
    /\ arg.decoded = <<65, 66, 32, 126>>

---------------------------------------------------------------------------
(* The decode loop on every 16-bit word *)

WordInit ==
    /\ \E w \in 0..eof_threshold : arg = [word |-> w, done |-> FALSE, byte_list |-> <<>>]
    /\ wire = <<>> /\ ssend = Idle
    /\ rcv = Idle /\ srun = Idle /\ trc = Idle /\ tsend = Idle
    /\ observed = <<>> /\ clock = 0

DecodeOneWord ==
    /\ ~arg.done
    /\ arg' = [arg EXCEPT !.done = TRUE, !.byte_list = DecodeWord(arg.word)]
    /\ UNCHANGED <<rcv, srun, observed, clock, ssend, trc, tsend, wire>>

WordNext == DecodeOneWord

SpecWord == WordInit /\ [][WordNext]_vars

\* what one byte contributes when the scan reaches it
ByteChars(b) == IF Printable(b) THEN <<b>> ELSE <<>>

\* C6: for a word other than 0xFFFF the bytes are scanned high then low; a
\* zero byte ends the scan, a byte in 32..126 is appended, any other byte is
\* skipped; 0x4100 -> "A", 0x0041 -> "", 0x4142 -> "AB", 0x0141 -> "A"; the
\* result has at most 2 characters.
C6_DecodeWord ==
    (arg.done /\ arg.word # eof_threshold) =>
        LET hi == arg.word \div 256
            lo == arg.word % 256
        IN  /\ arg.byte_list =
                 IF hi = 0 THEN <<>>
                 ELSE IF lo = 0 THEN ByteChars(hi)
                 ELSE ByteChars(hi) \o ByteChars(lo)
            /\ Len(arg.byte_list) \in {0, 1, 2}
            /\ arg.word = 16640 => arg.byte_list = <<65>>
            /\ arg.word = 65    => arg.byte_list = <<>>
            /\ arg.word = 16706 => arg.byte_list = <<65, 66>>
            /\ arg.word = 321   => arg.byte_list = <<65>>

C6_Witness ==
    /\ arg.done
    /\ arg.word = 65
    /\ arg.byte_list = <<>>

---------------------------------------------------------------------------
(* Claims about the storage stream decoder, checked under Spec *)

Matching(o) == o.ttl = DefaultTtl

\* the step handed packet_callback one more packet
Observing == Len(observed') = Len(observed) + 1
NewObs == observed'[Len(observed')]

MessageAndCountUnchanged ==
    /\ rcv'.decoded_bytes = rcv.decoded_bytes
    /\ rcv'.packet_count = rcv.packet_count

\* the word of the last accepted observation of a history (None when none
\* was accepted): an observation is accepted when its TTL matches and its
\* word differs from the previously accepted one
RECURSIVE LastAcceptedWord(_)
LastAcceptedWord(obs) ==
    IF obs = <<>> THEN None
    ELSE LET before == LastAcceptedWord(SubSeq(obs, 1, Len(obs) - 1))
             o == obs[Len(obs)]
         IN  IF Matching(o) /\ o.word # before THEN o.word ELSE before

\* an EOF word with matching TTL has been accepted
EofAccepted ==
    \E i \in DOMAIN observed :
        observed[i].word = eof_threshold /\ Matching(observed[i])

\* C3: once an observation with word 0xFFFF and matching TTL has been
\* accepted, neither that observation nor any later one changes the decoded
\* message or the packet counter.
C3_EofEndsSession ==
    [][ (EofAccepted \/ EofAccepted') => MessageAndCountUnchanged ]_vars

\* C4: an observation with matching TTL whose word equals the last accepted
\* word leaves message and packet counter unchanged; the first accepted
\* observation is never suppressed (it is recorded as last accepted, starts
\* the clock and, unless it is the EOF word, is counted); and the words
\* 0x4142, 0x4142, 0x4344 with matching TTL decode to "ABCD", 2 packets.
C4_Example ==
    observed = << [word |-> 16706, ttl |-> DefaultTtl],
                  [word |-> 16706, ttl |-> DefaultTtl],
                  [word |-> 17220, ttl |-> DefaultTtl] >>

C4_DuplicateSuppression ==
    /\ [][ Observing /\ Matching(NewObs)
              /\ NewObs.word = LastAcceptedWord(observed)
            => MessageAndCountUnchanged ]_vars
    /\ [][ Observing /\ Matching(NewObs) /\ LastAcceptedWord(observed) = None
            => /\ rcv'.last_packet_id = NewObs.word
               /\ rcv'.start_time = clock'
               /\ NewObs.word # eof_threshold
                    => rcv'.packet_count = rcv.packet_count + 1 ]_vars
    /\ [](C4_Example => /\ rcv.decoded_bytes = <<65, 66, 67, 68>>
                        /\ rcv.packet_count = 2)

C4_Witness ==
    /\ C4_Example
    /\ rcv.decoded_bytes = <<65, 66, 67, 68>>
    /\ rcv.packet_count = 2

\* C5: an observation with ttl # expected_ttl adds one to the filtered
\* counter and leaves message, packet counter, last accepted word and
\* start_time unchanged, in every decoder state.
C5_TtlFilterFrame ==
    [][ Observing /\ NewObs.ttl # rcv.expected_ttl
        => /\ rcv'.system_packets_filtered = rcv.system_packets_filtered + 1
           /\ rcv'.decoded_bytes = rcv.decoded_bytes
           /\ rcv'.packet_count = rcv.packet_count
           /\ rcv'.last_packet_id = rcv.last_packet_id
           /\ rcv'.start_time = rcv.start_time ]_vars

\* a filtered packet between two equal words: the second is still suppressed
C5_Witness ==
    /\ observed = << [word |-> 16706, ttl |-> DefaultTtl],
                     [word |-> 16706, ttl |-> 64],
                     [word |-> 16706, ttl |-> DefaultTtl] >>
    /\ rcv.system_packets_filtered = 1
    /\ rcv.decoded_bytes = <<65, 66>>
    /\ rcv.packet_count = 1

---------------------------------------------------------------------------
(* Timing receiver.  One tick is 50 ms: 0.1 s = 2, 0.15 s = 3, 0.2 s = 4.  *)
(* The optional CSV log is an output sink and is left out.                 *)

Threshold == 3          \* threshold=0.15
Bit0Delay == 2          \* --bit0_delay 0.1
Bit1Delay == 4          \* --bit1_delay 0.2
EofSleep == 10          \* time.sleep(0.5) after an EOF marker
EofLimit == 2           \* if eof_count >= 2: break

\* time between two datagrams the transport may produce
Gaps == {Bit0Delay, Threshold, Bit1Delay}

\* the locals of receive_timing_channel before the loop
TimingInit(threshold) ==
    [ pc |-> "recv", threshold |-> threshold,
      bits |-> <<>>, iats |-> <<>>, bit_labels |-> <<>>,
      prev_time |-> None, start_time |-> None,
      eof_count |-> 0, packets_received |-> 0,
      exc |-> "", report |-> <<>> ]

DecodeBitInclusive(iat, threshold) == IF iat >= threshold THEN "1" ELSE "0"

\* bit = '1' if iat > threshold else '0'
DecodeBit(iat, threshold) == IF iat > threshold THEN "1" ELSE "0"

EofReachedAtOne(eof_count) == eof_count >= 1

\* if eof_count >= 2: break
EofReached(eof_count) == eof_count >= EofLimit

\* the iteration with prev_time also set when an EOF marker arrives
TimingRecvEofSetsPrev(t, data, current_time) ==
    LET t1 == [t EXCEPT !.packets_received = @ + 1] IN
    IF data = "EOF"
    THEN LET t2 == [t1 EXCEPT !.eof_count = @ + 1,
                              !.prev_time = current_time] IN
         IF t2.eof_count >= EofLimit THEN [t2 EXCEPT !.pc = "finalize"] ELSE t2
    ELSE IF t1.start_time = None
    THEN [t1 EXCEPT !.start_time = current_time, !.prev_time = current_time]
    ELSE LET iat == current_time - t1.prev_time
             bit == DecodeBit(iat, t1.threshold)
         IN  [t1 EXCEPT !.iats = Append(@, iat),
                        !.bits = Append(@, bit),
                        !.bit_labels = Append(@, bit),
                        !.prev_time = current_time]

\* one iteration of the receive loop, for the datagram data received at
\* current_time: the locals afterwards
TimingRecv(t, data, current_time) ==
    LET t1 == [t EXCEPT !.packets_received = @ + 1] IN
    IF data = "EOF"
    THEN LET t2 == [t1 EXCEPT !.eof_count = @ + 1] IN
         IF EofReached(t2.eof_count) THEN [t2 EXCEPT !.pc = "finalize"] ELSE t2
    ELSE IF t1.start_time = None
    THEN [t1 EXCEPT !.start_time = current_time, !.prev_time = current_time]
    ELSE LET iat == current_time - t1.prev_time
             bit == DecodeBit(iat, t1.threshold)
         IN  [t1 EXCEPT !.iats = Append(@, iat),
                        !.bits = Append(@, bit),
                        !.bit_labels = Append(@, bit),
                        !.prev_time = current_time]

\* int(c, 2) for a string c of '0' and '1'
RECURSIVE IntBase2(_)
IntBase2(c) ==
    IF c = <<>> THEN 0
    ELSE 2 * IntBase2(SubSeq(c, 1, Len(c) - 1))
         + (IF c[Len(c)] = "1" THEN 1 ELSE 0)

\* chars = [bits_str[i:i+8] for i in range(0, len(bits_str), 8)]
BitChunks(bits_str) ==
    [ k \in 1..((Len(bits_str) + 7) \div 8) |->
        SubSeq(bits_str, 8 * (k - 1) + 1,
               IF 8 * k < Len(bits_str) THEN 8 * k ELSE Len(bits_str)) ]

\* the conversion without the test len(c) == 8
BitsToTextPartial(bits) ==
    [ k \in DOMAIN BitChunks(bits) |-> IntBase2(BitChunks(bits)[k]) ]

\* message = ''.join(chr(int(c, 2)) for c in chars if len(c) == 8)
BitsToText(bits) ==
    LET chars == BitChunks(bits)
        full == SelectSeq(chars, LAMBDA c : Len(c) = 8)
    IN  [ k \in DOMAIN full |-> IntBase2(full[k]) ]

RECURSIVE SumSeq(_)
SumSeq(xs) == IF xs = <<>> THEN 0 ELSE Head(xs) + SumSeq(Tail(xs))

\* the class of a label taken to be every sample
IatsOfAnyLabel(t, label) == t.iats

\* [iats[i] for i in range(len(iats)) if bit_labels[i] == label]
IatsOf(t, label) ==
    LET idx == { i \in DOMAIN t.iats : t.bit_labels[i] = label }
        RECURSIVE Pick(_)
        Pick(i) == IF i > Len(t.iats) THEN <<>>
                   ELSE IF i \in idx THEN <<t.iats[i]>> \o Pick(i + 1)
                   ELSE Pick(i + 1)
    IN  Pick(1)

\* mean and variance of one class, as ratios <<numerator, denominator>>
ClassStats(xs) ==
    LET n == Len(xs)
        sum == SumSeq(xs)
        squares == SumSeq([k \in DOMAIN xs |-> xs[k] * xs[k]])
    IN  [ samples |-> n,
          mean |-> IF n > 0 THEN <<sum, n>> ELSE <<0, 1>>,
          var  |-> IF n > 0 THEN <<n * squares - sum * sum, n * n>> ELSE <<0, 1>> ]

\* the code after the loop, run at time now: the message is built, then
\* elapsed = time.time() - start_time raises TypeError when start_time is
\* None, otherwise the statistics are computed and the report is printed
TimingFinalize(t, now) ==
    IF t.start_time = None
    THEN [t EXCEPT !.pc = "raised", !.exc = "TypeError"]
    ELSE LET elapsed == now - t.start_time IN
         [t EXCEPT !.pc = "returned",
                   !.report = << [ message |-> BitsToText(t.bits),
                                   bits    |-> Len(t.bits),
                                   packets |-> t.packets_received,
                                   elapsed |-> elapsed,
                                   bps     |-> IF elapsed > 0
                                               THEN <<Len(t.bits), elapsed>>
                                               ELSE <<0, 1>>,
                                   bit0    |-> ClassStats(IatsOf(t, "0")),
                                   bit1    |-> ClassStats(IatsOf(t, "1")) ] >> ]

TimingIdle ==
    /\ rcv = Idle /\ srun = Idle /\ ssend = Idle

TimingStreamInit ==
    /\ trc = TimingInit(Threshold)
    /\ observed = <<>>
    /\ clock = 0
    /\ tsend = Idle /\ wire = <<>> /\ arg = <<>>
    /\ TimingIdle

\* recvfrom returns a datagram gap ticks after the previous one
Recv(data) ==
    /\ trc.pc = "recv"
    /\ Len(observed) < MaxPackets
    /\ \E gap \in Gaps :
         /\ clock' = clock + gap
         /\ trc' = TimingRecv(trc, data, clock + gap)
         /\ observed' = Append(observed, [data |-> data, at |-> clock + gap])
    /\ UNCHANGED <<rcv, srun, ssend, tsend, wire, arg>>

RecvData == Recv("X")

RecvEof == Recv("EOF")

\* recvfrom raises (operator interrupt, socket error): nothing in
\* receive_timing_channel catches it
RecvRaises ==
    /\ trc.pc = "recv"
    /\ \E exc \in {"KeyboardInterrupt", "OSError"} :
         trc' = [trc EXCEPT !.pc = "raised", !.exc = exc]
    /\ UNCHANGED <<rcv, srun, observed, clock, ssend, tsend, wire, arg>>

\* the loop was left by break: the rest of the function runs
Finalize ==
    /\ trc.pc = "finalize"
    /\ trc' = TimingFinalize(trc, clock)
    /\ UNCHANGED <<rcv, srun, observed, clock, ssend, tsend, wire, arg>>

TimingNext == RecvData \/ RecvEof \/ RecvRaises \/ Finalize

SpecTiming == TimingStreamInit /\ [][TimingNext]_vars

---------------------------------------------------------------------------
(* Claims about the timing stream decoder, checked under SpecTiming *)

\* the events of a history that carry data
DataEvents(obs) == SelectSeq(obs, LAMBDA e : e.data = "X")
EofEvents(obs) == SelectSeq(obs, LAMBDA e : e.data = "EOF")

\* the step handed the loop a data datagram / an EOF marker
DataArrival == Observing /\ NewObs.data = "X"
EofArrival == Observing /\ NewObs.data = "EOF"

\* C7: the first data arrival produces no bit and records start_time and
\* previous_time; every later data arrival appends exactly one bit, 1 iff
\* arrival time - previous_time > threshold (equality gives 0), and sets
\* previous_time to the arrival time; after k >= 1 data arrivals there are
\* exactly k - 1 bits.
C7_BitProduction ==
    /\ [][ DataArrival /\ DataEvents(observed) = <<>>
            => /\ trc'.bits = trc.bits
               /\ trc'.iats = trc.iats
               /\ trc'.start_time = NewObs.at
               /\ trc'.prev_time = NewObs.at ]_vars
    /\ [][ DataArrival /\ DataEvents(observed) # <<>>
            => LET iat == NewObs.at - trc.prev_time IN
               /\ Len(trc'.bits) = Len(trc.bits) + 1
               /\ SubSeq(trc'.bits, 1, Len(trc.bits)) = trc.bits
               /\ (trc'.bits[Len(trc'.bits)] = "1") <=> (iat > Threshold)
               /\ (trc'.bits[Len(trc'.bits)] = "0") <=> (iat <= Threshold)
               /\ trc'.prev_time = NewObs.at
               /\ trc'.start_time = trc.start_time ]_vars
    /\ [](LET k == Len(DataEvents(observed)) IN
           Len(trc.bits) = IF k >= 1 THEN k - 1 ELSE 0)

\* four data arrivals, the gaps after the first 0.2 s, 0.15 s and 0.1 s
C7_Witness ==
    /\ observed = << [data |-> "X", at |-> 2], [data |-> "X", at |-> 6],
                     [data |-> "X", at |-> 9], [data |-> "X", at |-> 11] >>
    /\ trc.bits = <<"1", "0", "0">>
    /\ trc.start_time = 2
    /\ trc.prev_time = 11

\* the receive loop was left by its break
LeftLoop ==
    \/ trc.pc \in {"finalize", "returned"}
    \/ trc.pc = "raised" /\ trc.exc = "TypeError"

\* C9: each EOF marker adds one to eof_count and produces no bit; the
\* decoder is DONE exactly when two EOF markers have arrived, however many
\* data arrivals separate them; one EOF marker never ends the session.
C9_EofRule ==
    /\ [][ EofArrival => /\ trc'.eof_count = trc.eof_count + 1
                         /\ trc'.bits = trc.bits ]_vars
    /\ [](trc.eof_count = Len(EofEvents(observed)))
    /\ [](LeftLoop <=> Len(EofEvents(observed)) = 2)
    /\ [](Len(EofEvents(observed)) <= 1 => trc.pc \in {"recv", "raised"})

\* two EOF markers with three data arrivals between them end the session
C9_Witness ==
    /\ Len(observed) = 5
    /\ observed[1].data = "EOF"
    /\ observed[2].data = "X" /\ observed[3].data = "X" /\ observed[4].data = "X"
    /\ observed[5].data = "EOF"
    /\ trc.pc = "returned"
    /\ Len(trc.bits) = 2

---------------------------------------------------------------------------
(* Byte assembly on every bit sequence up to MaxBits bits *)

AssemblyInit ==
    /\ \E bits \in SeqsUpTo({"0", "1"}, MaxBits) :
         arg = [bits |-> bits, done |-> FALSE, message |-> <<>>]
    /\ rcv = Idle /\ srun = Idle /\ ssend = Idle /\ trc = Idle /\ tsend = Idle
    /\ wire = <<>> /\ observed = <<>> /\ clock = 0

\* the conversion of the bits to text
Assemble ==
    /\ ~arg.done
    /\ arg' = [arg EXCEPT !.done = TRUE, !.message = BitsToText(arg.bits)]
    /\ UNCHANGED <<rcv, srun, observed, clock, ssend, trc, tsend, wire>>

AssemblyNext == Assemble

SpecAssembly == AssemblyInit /\ [][AssemblyNext]_vars

BitValue(b) == IF b = "1" THEN 1 ELSE 0

\* "0100100001100101"
BitsOfHe ==
    << "0","1","0","0","1","0","0","0", "0","1","1","0","0","1","0","1" >>

\* C8: n bits give floor(n / 8) characters; character j is the value of bits
\* 8j .. 8j+7 read most significant bit first; the trailing n mod 8 bits are
\* dropped; "0100100001100101" gives "He", with a 17th bit too.
C8_ByteAssembly ==
    arg.done =>
        /\ Len(arg.message) = Len(arg.bits) \div 8
        /\ \A j \in DOMAIN arg.message :
              arg.message[j] =
                  128 * BitValue(arg.bits[8 * j - 7]) + 64 * BitValue(arg.bits[8 * j - 6])
                  + 32 * BitValue(arg.bits[8 * j - 5]) + 16 * BitValue(arg.bits[8 * j - 4])
                  + 8 * BitValue(arg.bits[8 * j - 3]) + 4 * BitValue(arg.bits[8 * j - 2])
                  + 2 * BitValue(arg.bits[8 * j - 1]) + BitValue(arg.bits[8 * j])
        /\ arg.bits = BitsOfHe => arg.message = <<72, 101>>
        /\ (Len(arg.bits) = 17 /\ SubSeq(arg.bits, 1, 16) = BitsOfHe)
             => arg.message = <<72, 101>>

C8_Witness ==
    /\ arg.done
    /\ arg.bits = BitsOfHe \o <<"1">>
    /\ arg.message = <<72, 101>>

---------------------------------------------------------------------------
(* Timing sender, and the two ends over a transport that delivers every    *)
(* datagram in order at the instant it was sent (zero jitter)              *)

\* characters of the messages given to the timing sender:
\* NUL, 'H', 'i', 0xFF
TimingChars == {0, 72, 105, 255}

\* the delays the sender may be given
Delays == {Bit0Delay, Bit1Delay}

\* format(n, 'b'): the binary digits of n, no leading zero
RECURSIVE Binary(_)
Binary(n) ==
    IF n < 2 THEN << IF n = 1 THEN "1" ELSE "0" >>
    ELSE Binary(n \div 2) \o << IF n % 2 = 1 THEN "1" ELSE "0" >>

\* format(ord(c), '08b'): zero-padded on the left to a width of at least 8
Format08b(n) ==
    LET digits == Binary(n) IN
    [k \in 1..(8 - Len(digits)) |-> "0"] \o digits

\* text_to_bits
RECURSIVE text_to_bits(_)
text_to_bits(text) ==
    IF text = <<>> THEN <<>>
    ELSE Format08b(Head(text)) \o text_to_bits(Tail(text))

TimingSenderInit(message, bit0_delay, bit1_delay, now) ==
    [ pc |-> "send", message |-> message, bits |-> text_to_bits(message),
      bit0_delay |-> bit0_delay, bit1_delay |-> bit1_delay,
      start_time |-> now, i |-> 0, eofs |-> 0 ]

\* one iteration of the sending loop: a datagram, then the delay of the bit
SendBit ==
    /\ tsend.pc = "send"
    /\ tsend.i < Len(tsend.bits)
    /\ LET bit == tsend.bits[tsend.i + 1]
           delay == IF bit = "0" THEN tsend.bit0_delay ELSE tsend.bit1_delay
       IN  /\ wire' = Append(wire, [data |-> "X", at |-> clock])
           /\ clock' = clock + delay
    /\ tsend' = [tsend EXCEPT !.i = @ + 1]
    /\ UNCHANGED <<rcv, srun, observed, ssend, trc, arg>>

\* for _ in range(3): one EOF marker, then time.sleep(0.5); after the last
\* one the sender prints its summary and closes the socket
SendEof ==
    /\ tsend.pc = "send"
    /\ tsend.i = Len(tsend.bits)
    /\ tsend.eofs < EofMarkers
    /\ wire' = Append(wire, [data |-> "EOF", at |-> clock])
    /\ clock' = clock + EofSleep
    /\ tsend' = [tsend EXCEPT !.eofs = @ + 1,
                              !.pc = IF tsend.eofs + 1 = EofMarkers
                                     THEN "done" ELSE "send"]
    /\ UNCHANGED <<rcv, srun, observed, ssend, trc, arg>>

\* recvfrom returns the oldest datagram sent, at the time it was sent
Deliver ==
    /\ trc.pc = "recv"
    /\ wire # <<>>
    /\ trc' = TimingRecv(trc, Head(wire).data, Head(wire).at)
    /\ observed' = Append(observed, Head(wire))
    /\ wire' = Tail(wire)
    /\ UNCHANGED <<rcv, srun, clock, ssend, tsend, arg>>

EndToEndInit ==
    /\ \E message \in SeqsUpTo(TimingChars, MaxChars),
          bit0_delay \in Delays, bit1_delay \in Delays :
         tsend = TimingSenderInit(message, bit0_delay, bit1_delay, 0)
    /\ trc = TimingInit(Threshold)
    /\ wire = <<>> /\ observed = <<>> /\ clock = 0 /\ arg = <<>>
    /\ TimingIdle

EndToEndNext == SendBit \/ SendEof \/ Deliver \/ Finalize

SpecEndToEnd == EndToEndInit /\ [][EndToEndNext]_vars

\* C1: with bit0_delay < threshold < bit1_delay and every datagram delivered
\* in order with zero jitter, the receiver finishes with 8 * n bits and the
\* message sent.
C1_EndToEnd ==
    ( /\ trc.pc = "returned"
      /\ tsend.bit0_delay < trc.threshold
      /\ trc.threshold < tsend.bit1_delay )
    => /\ Len(trc.bits) = 8 * Len(tsend.message)
       /\ trc.report[1].message = tsend.message

---------------------------------------------------------------------------
(* Finalization of the two receivers *)

\* the timing receiver was cancelled in recvfrom
Cancelled ==
    trc.pc = "raised" /\ trc.exc \in {"KeyboardInterrupt", "OSError"}

\* C11: when the timing receiver is cancelled (operator interrupt, receive
\* error) anywhere in its receive loop, the final report is still printed,
\* over the bits decoded so far.
C11_ReportOnCancel ==
    Cancelled => /\ Len(trc.report) = 1
                 /\ trc.report[1].bits = Len(trc.bits)

\* C12: a timing session finalized without a data arrival (start_time still
\* None, two EOF markers received) ends in a report, not in an exception.
\* (The storage half, "No packets received", is part of C10_ReportOnFailure.)
C12_NoDataFinalization ==
    (LeftLoop /\ trc.pc # "finalize" /\ trc.start_time = None)
    => /\ trc.pc = "returned"
       /\ trc.exc = ""
       /\ Len(trc.report) = 1

\* the report of a storage session that ended after a packet was accepted
StorageReported ==
    /\ srun.pc = "returned"
    /\ Len(srun.reports) = 1
    /\ srun.reports[1].kind = "Results"

\* C13, as claimed: the bits of the throughput are 16 times the packet
\* counter, whatever number of characters the words gave.
C13_BitsPerWord ==
    StorageReported =>
        srun.reports[1].bits_decoded = 16 * rcv.packet_count

\* C13, amended: the bits of the throughput are 8 times the number of decoded
\* characters, at most 16 times the packet counter; the throughput is that
\* number over the elapsed time, and 0 when elapsed <= 0.
C13_BitsPerCharacter ==
    StorageReported =>
        LET r == srun.reports[1] IN
        /\ r.bits_decoded = 8 * Len(rcv.decoded_bytes)
        /\ r.bits_decoded <= 16 * rcv.packet_count
        /\ r.elapsed = clock - rcv.start_time
        /\ r.elapsed > 0 => r.bps = <<r.bits_decoded, r.elapsed>>
        /\ r.elapsed <= 0 => r.bps = <<0, 1>>

\* one accepted word, 0x4100, that gave one character
C13_Witness ==
    /\ StorageReported
    /\ rcv.packet_count = 1
    /\ rcv.decoded_bytes = <<65>>
    /\ srun.reports[1].bits_decoded = 8
    /\ srun.reports[1].bps = <<8, 1>>

---------------------------------------------------------------------------
(* The words of the storage sender, checked under SpecCodec *)

\* every word sent so far, in the order sent
WordsSent == arg.words \o [k \in DOMAIN wire |-> wire[k].id]

\* C14: every word sent for a payload chunk lies in 0..0xFFFF and is not
\* 0xFFFF; 0xFFFF is sent only as an EOF marker.
C14_ReservedSentinel ==
    \A k \in DOMAIN WordsSent :
        IF k <= ssend.packets_sent
        THEN WordsSent[k] \in 0..(eof_threshold - 1)
        ELSE WordsSent[k] = eof_threshold

---------------------------------------------------------------------------
(* The characters the two decoders produce: the storage stream decoder,    *)
(* its decode loop on every word, and the byte assembly of the timing      *)
(* receiver on every bit sequence                                          *)

OfStorage == srun.pc \in {"sniff", "returned"}
OfWord == srun = Idle /\ "word" \in DOMAIN arg
OfAssembly == srun = Idle /\ "bits" \in DOMAIN arg

DecodersInit == StorageInit \/ WordInit \/ AssemblyInit

DecodersNext ==
    \/ OfStorage /\ Next
    \/ OfWord /\ WordNext
    \/ OfAssembly /\ AssemblyNext

SpecDecoders == DecodersInit /\ [][DecodersNext]_vars

AllPrintable(chars) == \A k \in DOMAIN chars : Printable(chars[k])

StorageOutputPrintable ==
    /\ OfStorage => AllPrintable(rcv.decoded_bytes)
    /\ (OfWord /\ arg.done) => AllPrintable(arg.byte_list)

\* C15, as claimed: every character either decoder produces has a code in
\* 32..126.
C15_PrintableOnly ==
    /\ StorageOutputPrintable
    /\ (OfAssembly /\ arg.done) => AllPrintable(arg.message)

\* C15, amended: every character of the storage decoder has a code in
\* 32..126; every character of the timing decoder is the value of 8 bits, a
\* code in 0..255, printable or not.
C15_OutputRange ==
    /\ StorageOutputPrintable
    /\ (OfAssembly /\ arg.done) =>
          \A k \in DOMAIN arg.message : arg.message[k] \in 0..255

\* the timing decoder turns the bits 00000000 11111111 into NUL and 0xFF
C15_Witness ==
    /\ OfAssembly /\ arg.done
    /\ arg.bits = << "0","0","0","0","0","0","0","0",
                     "1","1","1","1","1","1","1","1" >>
    /\ arg.message = <<0, 255>>

---------------------------------------------------------------------------
(* The timing channel over a transport that may lose datagrams: every      *)
(* datagram is sent, then either delivered in order or lost                *)

LossyInit ==
    /\ \E message \in SeqsUpTo(TimingChars, MaxChars),
          bit0_delay \in Delays, bit1_delay \in Delays :
         tsend = TimingSenderInit(message, bit0_delay, bit1_delay, 0)
    /\ trc = TimingInit(Threshold)
    /\ wire = <<>> /\ observed = <<>> /\ clock = 0
    /\ arg = [lost |-> 0]
    /\ TimingIdle

\* the transport loses the oldest datagram sent
Lose ==
    /\ wire # <<>>
    /\ arg.lost < MaxLost
    /\ wire' = Tail(wire)
    /\ arg' = [arg EXCEPT !.lost = @ + 1]
    /\ UNCHANGED <<rcv, srun, observed, clock, ssend, trc, tsend>>

LossyNext == SendBit \/ SendEof \/ Deliver \/ Lose \/ Finalize

\* the sender's sleeps end, a datagram that is not lost arrives, and the
\* receiver runs on once recvfrom has returned
LossyFairness ==
    /\ WF_vars(SendBit) /\ WF_vars(SendEof)
    /\ WF_vars(Deliver) /\ WF_vars(Finalize)

SpecLossy == LossyInit /\ [][LossyNext]_vars /\ LossyFairness

EofDelivered == Len(EofEvents(observed))

\* C16: once two of the three EOF markers have been delivered the receiver
\* has left its loop and finalizes (it is in the code after the loop or has
\* returned from it with the report); with fewer than two delivered it is
\* still in the loop.
C16_Termination ==
    /\ EofDelivered >= 2 => trc.pc \in {"finalize", "returned"}
    /\ EofDelivered < 2 => trc.pc = "recv"

---------------------------------------------------------------------------
(* The storage channel end to end: every packet the sender sends is handed *)
(* to packet_callback, in order, once                                      *)

StorageEndToEndInit ==
    /\ \E message \in SeqsUpTo(StorageChars, MaxLen) :
         ssend = SenderInit(message, DefaultTtl, 0)
    /\ rcv = ReceiverInit(DefaultTtl)
    /\ srun = [pc |-> "sniff", raised |-> "", reports |-> <<>>]
    /\ wire = <<>> /\ observed = <<>> /\ clock = 0 /\ arg = <<>>
    /\ trc = Idle /\ tsend = Idle

\* sniff hands the oldest packet sent to packet_callback
SniffSent ==
    /\ srun.pc = "sniff"
    /\ wire # <<>>
    /\ rcv' = PacketCallback(rcv, Head(wire).id, Head(wire).ttl, clock)
    /\ observed' = Append(observed, [word |-> Head(wire).id,
                                     ttl  |-> Head(wire).ttl])
    /\ wire' = Tail(wire)
    /\ UNCHANGED <<srun, clock, ssend, trc, tsend, arg>>

StorageEndToEndNext ==
    SendChunk \/ SendFails \/ EncodeDone \/ SendEofMarker \/ SniffSent

SpecStorageEndToEnd == StorageEndToEndInit /\ [][StorageEndToEndNext]_vars

\* C17: for a printable message of even length, once the receiver has
\* detected EOF the decoded message is the message sent and the packet
\* counter is the number of payload words sent, also when the message holds
\* two equal consecutive 2-character chunks.
C17_StreamEndToEnd ==
    ( /\ EofAccepted
      /\ Len(ssend.message) % 2 = 0
      /\ AllPrintable(ssend.message) )
    => /\ rcv.decoded_bytes = ssend.message
       /\ rcv.packet_count = ssend.packets_sent
       /\ rcv.packet_count = Len(ssend.message) \div 2

---------------------------------------------------------------------------
(* More claims about the timing stream decoder, checked under SpecTiming *)

LastOf(xs) == xs[Len(xs)]

\* C18: an EOF marker that does not bring eof_count to 2 changes eof_count
\* and the count of received packets only; bits, IAT samples, start_time and
\* previous_time stay, so it does not start the clock, and the IAT of the
\* next bit is still measured from the previous data arrival.
C18_EofFrame ==
    /\ [][ EofArrival /\ trc.eof_count + 1 < 2
            => trc' = [trc EXCEPT !.eof_count = @ + 1,
                                  !.packets_received = @ + 1] ]_vars
    /\ [][ DataArrival /\ DataEvents(observed) # <<>>
            => LastOf(trc'.iats) = NewObs.at - LastOf(DataEvents(observed)).at ]_vars
    /\ [](DataEvents(observed) = <<>> => trc.start_time = None)

\* an EOF marker between two data arrivals 0.2 s apart: the bit is 1
C18_Witness ==
    /\ observed = << [data |-> "X", at |-> 2], [data |-> "EOF", at |-> 4],
                     [data |-> "X", at |-> 6] >>
    /\ trc.iats = <<4>>
    /\ trc.bits = <<"1">>
    /\ trc.eof_count = 1

\* the positions of the samples above the threshold
AboveThreshold == { i \in DOMAIN trc.iats : trc.iats[i] > Threshold }

\* C19: the IAT list, the bit list and the label list always have the same
\* length; a sample is labelled 1 exactly when it is above the threshold;
\* in the report the two sample counts are those of the two classes and sum
\* to the number of bits, and an empty class has mean 0 and deviation 0.
C19_SamplePartition ==
    /\ Len(trc.iats) = Len(trc.bits)
    /\ Len(trc.bit_labels) = Len(trc.bits)
    /\ \A i \in DOMAIN trc.iats :
          /\ trc.bit_labels[i] = "1" => trc.iats[i] > Threshold
          /\ trc.bit_labels[i] = "0" => trc.iats[i] <= Threshold
          /\ trc.bit_labels[i] \in {"0", "1"}
    /\ trc.pc = "returned" =>
          LET r == trc.report[1] IN
          /\ r.bit0.samples + r.bit1.samples = Len(trc.bits)
          /\ r.bit1.samples = Cardinality(AboveThreshold)
          /\ r.bit0.samples = Len(trc.iats) - Cardinality(AboveThreshold)
          /\ r.bit0.samples = 0 =>
                r.bit0.mean = <<0, 1>> /\ r.bit0.var = <<0, 1>>
          /\ r.bit1.samples = 0 =>
                r.bit1.mean = <<0, 1>> /\ r.bit1.var = <<0, 1>>

\* a report with two samples of class 1 and an empty class 0
C19_Witness ==
    /\ trc.pc = "returned"
    /\ trc.iats = <<4, 4>>
    /\ trc.report[1].bit1.samples = 2
    /\ trc.report[1].bit1.mean = <<8, 2>>
    /\ trc.report[1].bit0.samples = 0
    /\ trc.report[1].bit0.mean = <<0, 1>>

---------------------------------------------------------------------------
(* The counters of the storage stream decoder, checked under Spec *)

\* the number of observations of a history that had a matching TTL, were
\* not 0xFFFF and differed from the word accepted before them
RECURSIVE AcceptedPayloads(_)
AcceptedPayloads(obs) ==
    IF obs = <<>> THEN 0
    ELSE LET before == SubSeq(obs, 1, Len(obs) - 1)
             o == obs[Len(obs)]
         IN  AcceptedPayloads(before)
             + (IF /\ Matching(o)
                   /\ o.word # eof_threshold
                   /\ o.word # LastAcceptedWord(before)
                THEN 1 ELSE 0)

IsPrefix(xs, ys) == Len(xs) <= Len(ys) /\ SubSeq(ys, 1, Len(xs)) = xs

\* C20: the packet counter is the number of observations with matching TTL,
\* not 0xFFFF and different from the previously accepted word; the message
\* has at most 2 characters per counted packet; message, packet counter and
\* filtered counter never decrease; start_time is recorded by the first
\* accepted observation, the EOF word included, and never overwritten.
C20_Counters ==
    /\ [](rcv.packet_count = AcceptedPayloads(observed))
    /\ [](Len(rcv.decoded_bytes) <= 2 * rcv.packet_count)
    /\ []((rcv.start_time # None) <=> (LastAcceptedWord(observed) # None))
    /\ [][ /\ IsPrefix(rcv.decoded_bytes, rcv'.decoded_bytes)
           /\ rcv'.packet_count >= rcv.packet_count
           /\ rcv'.system_packets_filtered >= rcv.system_packets_filtered ]_vars
    /\ [][ Observing /\ Matching(NewObs) /\ LastAcceptedWord(observed) = None
            => rcv'.start_time = clock' ]_vars
    /\ [][ rcv.start_time # None => rcv'.start_time = rcv.start_time ]_vars

\* the EOF word accepted first, at time 0, then a payload word at time 1
C20_Witness ==
    /\ observed = << [word |-> eof_threshold, ttl |-> DefaultTtl],
                     [word |-> 16706, ttl |-> DefaultTtl] >>
    /\ clock = 1
    /\ rcv.start_time = 0
    /\ rcv.packet_count = 1
    /\ rcv.decoded_bytes = <<65, 66>>

====
